---- MODULE Spec2Model ----
(***************************************************************************)
(* Model of the online query-to-SQL pipeline of text2sql:                  *)
(*   Text2SQL.query_to_sql        (src/main/text2sql.py)                   *)
(*   SQLValidator.validate_and_fix (src/main/online/sql_validator.py)      *)
(*   LLMManager.correct_sql        (src/main/core/llm.py)                  *)
(*   PromptBuilder.build_correction_prompt                                 *)
(*                                 (src/main/online/prompt_builder.py)     *)
(*                                                                         *)
(* Texts (error messages, names) are sequences of word tokens, so that the *)
(* substring tests and the f-string formatting of the code are computed.   *)
(* A SQL candidate is represented by what the code reads from it: the      *)
(* table names and column references sqlglot extracts, and the bare words  *)
(* that follow "= " (the matches of the regex of _apply_basic_fixes).      *)
(* The external collaborators (sqlglot's parser, the database, the LLM)    *)
(* are nondeterministic: every outcome they can produce is enumerated.     *)
(***************************************************************************)
EXTENDS Integers, Sequences, FiniteSets, TLC

\* ------------------------------------------------------------------------
\* Bounds
\* ------------------------------------------------------------------------

\* Largest max_correction_attempts an invocation is started with.
MaxAttempts == 2

\* ------------------------------------------------------------------------
\* Optional values (Python None / a value)
\* ------------------------------------------------------------------------

None == <<>>

Some(x) == <<x>>

\* ------------------------------------------------------------------------
\* Texts
\* ------------------------------------------------------------------------

\* `pat in text` for Python strings, on word tokens.
Contains(text, pat) ==
    \E i \in 1..(Len(text) - Len(pat) + 1) :
        SubSeq(text, i, i + Len(pat) - 1) = pat

RECURSIVE Join(_)
\* ', '.join(names): the names separated by a comma token.
Join(names) ==
    IF names = {} THEN <<>>
    ELSE LET n == CHOOSE x \in names : TRUE
         IN  IF names \ {n} = {} THEN n
             ELSE n \o <<",">> \o Join(names \ {n})

\* str.isdigit() on the words of the model.
IsDigit(w) == w \in {"5"}

\* ------------------------------------------------------------------------
\* Names, schema contexts and SQL candidates
\* ------------------------------------------------------------------------

users == <<"users">>

\* A legal quoted identifier whose text contains the words "Unknown column".
audit == <<"Unknown", "column", "log">>

TableEntry(name, columns) ==
    [name |-> name, metadata |-> [columns |-> columns]]

\* The schema contexts retrieve_context may hand to the pipeline.
Contexts ==
    { [tables |-> << TableEntry(users, {<<"id">>, <<"username">>}),
                     TableEntry(audit, {<<"id">>, <<"msg">>}) >>,
       schema_text |-> <<"users", "audit">>],
      [tables |-> << TableEntry(users, {<<"id">>, <<"username">>}) >>,
       schema_text |-> <<"users">>] }

\* tables: names of the sqlglot.exp.Table nodes; cols: names of the
\* unqualified sqlglot.exp.Column nodes that do not follow "= ";
\* qcols: the qualified Column nodes, as pairs of table and name;
\* eqw: bare words following "= "; quoted: quoted literals following "= ".
SQL(tables, cols, eqw, quoted) ==
    [tables |-> tables, cols |-> cols, qcols |-> {}, eqw |-> eqw,
     quoted |-> quoted]

\* The same text with the qualified column references qcols.
Qualified(sql, qcols) == [sql EXCEPT !.qcols = qcols]

\* A column reference "table.name".
QCol(table, name) == [table |-> table, name |-> name]

\* The candidates the generation capability may return.
Candidates ==
    { SQL({users},  {<<"id">>},        {},      {}),
      SQL({users},  {<<"user_name">>}, {},      {}),
      SQL({audit},  {<<"id">>},        {"foo"}, {}),
      SQL({audit},  {<<"bad">>},       {"foo"}, {}),
      SQL({audit},  {<<"bad">>},       {"5"},   {}) }

\* str(e) of an exception raised by a collaborator.
ExcText(who) == <<who, "failed">>

\* ------------------------------------------------------------------------
\* SQLValidator
\* ------------------------------------------------------------------------

\* What sqlglot.parse can do with a text: return statements, return an
\* empty list, raise ParseError, raise another exception.
SyntaxOutcomes == {"ok", "empty", "ParseError", "Exception"}

\* The orders in which Python may iterate over the set S.
Orders(S) ==
    { f \in [1..Cardinality(S) -> S] :
        \A i, j \in 1..Cardinality(S) : f[i] = f[j] => i = j }

validate_syntax(sql, outcome) ==
    CASE outcome = "ok" -> <<TRUE, None>>
      [] outcome = "empty" -> <<FALSE, Some(<<"Empty", "SQL", "query">>)>>
      [] outcome = "ParseError" ->
            <<FALSE, Some(<<"SQL", "syntax", "error:">> \o ExcText("parse"))>>
      [] OTHER ->
            <<FALSE, Some(<<"Unexpected", "error", "during", "syntax",
                            "validation:">> \o ExcText("sqlglot"))>>

\* columns_in_query: name for every unqualified Column node, the bare
\* non-numeric words after "= " included (sqlglot reads them as column
\* references), and table.name for every qualified one.
columns_in_query(sql) ==
    { [table |-> None, name |-> c] :
        c \in sql.cols \cup { <<w>> : w \in { v \in sql.eqw : ~IsDigit(v) } } }
    \cup { [table |-> Some(q.table), name |-> q.name] : q \in sql.qcols }

\* table_columns: the names of the columns of the query that start with
\* table_name + '.' or have no '.'.
table_columns(sql, table_name) ==
    { col.name : col \in { c \in columns_in_query(sql) :
                              c.table = Some(table_name) \/ c.table = None } }

\* next(t for t in schema_context['tables'] if t['name'] == table_name)
table_info(schema_context, table_name) ==
    LET idx == { i \in 1..Len(schema_context.tables) :
                    schema_context.tables[i].name = table_name }
    IN  schema_context.tables[CHOOSE i \in idx : \A j \in idx : i <= j]

\* The columns of the query that table_name does not have.  Every
\* unqualified column is checked against every table of the query.
invalid_columns(sql, schema_context, table_name) ==
    table_columns(sql, table_name)
        \ table_info(schema_context, table_name).metadata.columns

validate_semantics(sql, schema_context, ast, order) ==
    LET available_tables ==
            { schema_context.tables[i].name :
                i \in 1..Len(schema_context.tables) }
        invalid_tables == sql.tables \ available_tables
        bad == { i \in 1..Len(order) :
                   invalid_columns(sql, schema_context, order[i]) # {} }
        first == CHOOSE i \in bad : \A j \in bad : i <= j
    IN  IF ast = "raise"
        THEN <<FALSE, Some(<<"Error", "during", "semantic", "validation:">>
                           \o ExcText("sqlglot"))>>
        ELSE IF invalid_tables # {}
        THEN <<FALSE, Some(<<"Invalid", "table(s):">> \o Join(invalid_tables))>>
        ELSE IF bad # {}
        THEN <<FALSE, Some(<<"Invalid", "column(s)", "in", "table">>
                           \o order[first] \o <<":">>
                           \o Join(invalid_columns(sql, schema_context,
                                                   order[first])))>>
        ELSE <<TRUE, None>>

\* Quote every bare non-numeric word that follows "= ", when the error
\* text contains "Unknown column"; the second rule of the code is `pass`.
apply_basic_fixes(sql, error) ==
    IF Contains(error, <<"Unknown", "column">>)
    THEN [sql EXCEPT !.eqw = { w \in sql.eqw : IsDigit(w) },
                     !.quoted = sql.quoted \cup
                                { w \in sql.eqw : ~IsDigit(w) }]
    ELSE sql

\* dry_run: connect if there is no engine (outside the try block, so a
\* failure propagates), then EXPLAIN / PREPARE on mysql / postgresql, or
\* validate_syntax on any other dialect.
dry_run(sql, engine, dialect, o) ==
    IF ~engine /\ o.connect = "raise"
    THEN [raised |-> TRUE, ret |-> <<FALSE, Some(ExcText("connect"))>>,
          engine |-> FALSE]
    ELSE IF dialect \in {"mysql", "postgresql"}
    THEN [raised |-> FALSE,
          ret |-> IF o.dry = "ok" THEN <<TRUE, None>>
                  ELSE <<FALSE, Some(<<"Dry", "run", "failed:">>
                                     \o ExcText("database"))>>,
          engine |-> TRUE]
    ELSE [raised |-> FALSE, ret |-> validate_syntax(sql, o.syn),
          engine |-> TRUE]

Stage(stage, sql, ok, error) ==
    [stage |-> stage, sql |-> sql, ok |-> ok, error |-> error]

\* validate_and_fix returns (is_valid, sql, error) or raises; stages is
\* the list of the stage evaluations it made, in order.
VResult(raised, is_valid, sql, error, stages, engine) ==
    [raised |-> raised, is_valid |-> is_valid, sql |-> sql, error |-> error,
     stages |-> stages, engine |-> engine]

\* Variant of dry_run_step: the auto-fix is also tried after a dry-run
\* failure.
dry_run_step_with_fix(sql, engine, dialect, o, log) ==
    LET dry == dry_run(sql, engine, dialect, o)
        l == log \o << Stage("dry_run", sql, dry.ret[1], dry.ret[2]) >>
        fixed_sql == apply_basic_fixes(sql, dry.ret[2][1])
    IN  IF dry.raised
        THEN VResult(TRUE, FALSE, sql, dry.ret[2], log, dry.engine)
        ELSE IF ~dry.ret[1]
        THEN VResult(FALSE, FALSE, sql, dry.ret[2],
                     l \o << Stage("autofix", fixed_sql, fixed_sql # sql,
                                   None) >>,
                     dry.engine)
        ELSE VResult(FALSE, TRUE, sql, None, l, dry.engine)

\* Step 3 of validate_and_fix: the dry run of sql; log holds the stages
\* evaluated before it.
dry_run_step(sql, engine, dialect, o, log) ==
    LET dry == dry_run(sql, engine, dialect, o)
        l == log \o << Stage("dry_run", sql, dry.ret[1], dry.ret[2]) >>
    IN  IF dry.raised
        THEN VResult(TRUE, FALSE, sql, dry.ret[2], log, dry.engine)
        ELSE IF ~dry.ret[1]
        THEN VResult(FALSE, FALSE, sql, dry.ret[2], l, dry.engine)
        ELSE VResult(FALSE, TRUE, sql, None, l, dry.engine)

\* Variant of semantic_step: a semantic failure that the fix leaves
\* unchanged does not return, and the dry run follows.
semantic_step_fall_through(sql, schema_context, engine, dialect, o, log) ==
    LET sem == validate_semantics(sql, schema_context, o.ast, o.order)
        l2 == log \o << Stage("semantic", sql, sem[1], sem[2]) >>
        fixed_sql == apply_basic_fixes(sql, sem[2][1])
        l3 == l2 \o << Stage("autofix", fixed_sql, fixed_sql # sql, None) >>
        syn2 == validate_syntax(fixed_sql, o.syn2)
        l4 == l3 \o << Stage("syntax", fixed_sql, syn2[1], syn2[2]) >>
        sem2 == validate_semantics(fixed_sql, schema_context, o.ast, o.order)
        l5 == l4 \o << Stage("semantic", fixed_sql, sem2[1], sem2[2]) >>
    IN  IF ~sem[1] THEN
            IF fixed_sql # sql THEN
                IF syn2[1] THEN
                    IF sem2[1]
                    THEN VResult(FALSE, TRUE, fixed_sql, None, l5, engine)
                    ELSE VResult(FALSE, FALSE, sql, sem2[2], l5, engine)
                ELSE VResult(FALSE, FALSE, sql, syn2[2], l4, engine)
            ELSE dry_run_step(sql, engine, dialect, o, l3)
        ELSE dry_run_step(sql, engine, dialect, o, l2)

\* Step 2 of validate_and_fix: the semantic validation of sql, the basic
\* fixes and the re-validation of the fixed SQL; then step 3.
semantic_step(sql, schema_context, engine, dialect, o, log) ==
    LET sem == validate_semantics(sql, schema_context, o.ast, o.order)
        l2 == log \o << Stage("semantic", sql, sem[1], sem[2]) >>
        fixed_sql == apply_basic_fixes(sql, sem[2][1])
        l3 == l2 \o << Stage("autofix", fixed_sql, fixed_sql # sql, None) >>
        syn2 == validate_syntax(fixed_sql, o.syn2)
        l4 == l3 \o << Stage("syntax", fixed_sql, syn2[1], syn2[2]) >>
        sem2 == validate_semantics(fixed_sql, schema_context, o.ast, o.order)
        l5 == l4 \o << Stage("semantic", fixed_sql, sem2[1], sem2[2]) >>
    IN  IF ~sem[1] THEN
            IF fixed_sql # sql THEN
                IF syn2[1] THEN
                    IF sem2[1]
                    THEN VResult(FALSE, TRUE, fixed_sql, None, l5, engine)
                    ELSE VResult(FALSE, FALSE, sql, sem2[2], l5, engine)
                ELSE VResult(FALSE, FALSE, sql, syn2[2], l4, engine)
            ELSE VResult(FALSE, FALSE, sql, sem[2], l3, engine)
        ELSE dry_run_step(sql, engine, dialect, o, l2)

\* Step 1, the syntax validation of sql; then step 2.
validate_and_fix(sql, schema_context, engine, dialect, o) ==
    LET syn == validate_syntax(sql, o.syn)
        l1 == << Stage("syntax", sql, syn[1], syn[2]) >>
    IN  IF ~syn[1] THEN VResult(FALSE, FALSE, sql, syn[2], l1, engine)
        ELSE semantic_step(sql, schema_context, engine, dialect, o, l1)

\* All the outcomes the collaborators can produce during one
\* validate_and_fix(sql, ...) call: parser on sql (syn) and on the fixed
\* text (syn2), AST traversal (ast), iteration order of tables_in_query
\* (order), SQLValidator.connect (connect) and the EXPLAIN / PREPARE
\* statement (dry).  The fix does not touch what makes the traversal
\* raise, so ast is the same for sql and for the fixed text.
AllOracles(sql) ==
    [ syn : SyntaxOutcomes, syn2 : SyntaxOutcomes,
      ast : {"ok", "raise"},
      order : Orders(sql.tables),
      connect : {"ok", "raise"}, dry : {"ok", "fail"} ]

\* The same outcomes, each behaviour once: a collaborator that the call
\* does not reach is fixed to "ok".
Oracles(sql, schema_context, engine, dialect) ==
    { o \in AllOracles(sql) :
        LET sem == validate_semantics(sql, schema_context, o.ast, o.order)
            refix == /\ o.syn = "ok"
                     /\ ~sem[1]
                     /\ apply_basic_fixes(sql, sem[2][1]) # sql
            dried == o.syn = "ok" /\ sem[1]
        IN  /\ o.syn # "ok" => o.ast = "ok"
            /\ ~refix => o.syn2 = "ok"
            /\ ~(dried /\ ~engine) => o.connect = "ok"
            /\ ~(dried /\ (engine \/ o.connect = "ok")
                       /\ dialect \in {"mysql", "postgresql"})
                  => o.dry = "ok" }

\* What one validate_and_fix call can return or raise, over the outcomes of
\* the collaborators.
validation_results(sql, schema_context, engine, dialect) ==
    { validate_and_fix(sql, schema_context, engine, dialect, o) :
        o \in Oracles(sql, schema_context, engine, dialect) }

\* ------------------------------------------------------------------------
\* Prompts
\* ------------------------------------------------------------------------

\* A prompt is the template that rendered it and the values the template
\* embeds; wrapper is the schema text of the outer LLMManager template, if
\* the prompt went through LLMManager._build_sql_generation_prompt.
Prompt(template, q, error_sql, error_message, attempt_count, wrapper) ==
    [template |-> template, query |-> q, error_sql |-> error_sql,
     error_message |-> error_message, attempt_count |-> attempt_count,
     wrapper |-> wrapper]

NoPrompt == Prompt("", <<>>, None, None, None, None)

build_sql_generation_prompt(q, schema_context) ==
    Prompt("PromptBuilder.build_sql_generation_prompt", q, None, None, None,
           None)

\* The template embeds the query, the failing SQL, the error message and
\* the attempt number; schema_context is not used.
build_correction_prompt(original_query, error_sql, error_message, schema_context, attempt_count) ==
    Prompt("PromptBuilder.build_correction_prompt", original_query,
           Some(error_sql), error_message, Some(attempt_count), None)

\* LLMManager._build_sql_generation_prompt: the outer template around
\* prompt, with the schema text.
llm_build_sql_generation_prompt(prompt, schema_text) ==
    [prompt EXCEPT !.wrapper = Some(schema_text)]

\* The complete prompt generate_sql hands to llm.invoke.
generate_sql_prompt(prompt, schema_text) ==
    llm_build_sql_generation_prompt(prompt, schema_text)

\* The complete prompt correct_sql hands to llm.invoke: its own template,
\* which embeds the query, the failing SQL and the error message.
correct_sql_prompt(original_prompt, error_sql, error_message, schema_text) ==
    llm_build_sql_generation_prompt(
        Prompt("LLMManager.correct_sql", original_prompt, Some(error_sql),
               error_message, None, None),
        schema_text)

\* ------------------------------------------------------------------------
\* Text2SQL.query_to_sql
\* ------------------------------------------------------------------------

VARIABLES
    pc,                       \* position inside query_to_sql
    max_correction_attempts,  \* argument of the invocation
    dialect,                  \* SQLValidator.dialect (settings.db_type)
    engine,                   \* SQLValidator.engine is set
    context,                  \* local: the retrieved schema context
    result,                   \* local: the dictionary that is returned
    sql,                      \* local: the last failing SQL
    corrected_sql,            \* local
    is_valid,                 \* local
    fixed_sql,                \* local
    error,                    \* local
    attempt,                  \* local: the loop variable
    correction_prompt,        \* local
    calls,                    \* the collaborator calls made, in order
    llm_prompt,               \* argument of the last llm.invoke call
    last_validation,          \* argument / outcome of the last validate_and_fix
    executed,                 \* argument of the execute_query call, if any
    exit,                     \* the path query_to_sql returned by
    use_hybrid_search,        \* argument of retrieve_context
    score_threshold,          \* argument of retrieve_context, in tenths
    searches,                 \* what vector_db.search returned, per query
    all_results,              \* local of retrieve_context
    unique_results,           \* local of retrieve_context
    session,                  \* statements prepared on the pooled connection
    dry_runs,                 \* number of dry_run calls made
    last_dry,                 \* input and outcome of the last dry_run call
    user_query,               \* argument of parse_query, as characters
    parsed,                   \* what parse_query returned, if it was called
    collection,               \* documents of the collection of the store
    exists,                   \* the store has a collection of that name
    live,                     \* per manager: self.collection is that one
    kpc,                      \* position of the build or import under way
    kop,                      \* the last knowledge base operation started
    kerror,                   \* what that operation raised to its caller
    file,                     \* the exported file, if there is one
    exported,                 \* the store at the last export
    observation,              \* what the last search of the retriever saw
    ops                       \* knowledge base operations started so far

\* The variables of retrieve_context.
rvars == << use_hybrid_search, score_threshold, searches, all_results,
           unique_results >>

\* The variables of query_to_sql and of the validator that retrieve_context
\* does not touch.
qvars == << max_correction_attempts, dialect, engine, result, sql,
           corrected_sql, is_valid, fixed_sql, error, attempt,
           correction_prompt, calls, llm_prompt, last_validation, executed,
           exit >>

\* The variables of the repeated dry runs.
dvars == << session, dry_runs, last_dry >>

\* The variables of the query parser.
pvars == << user_query, parsed >>

\* The variables of the knowledge store and of the operations on it.
kvars == << collection, exists, live, kpc, kop, kerror, file, exported, observation, ops >>

\* The variables of the other operations of the program.
ovars == << dvars, pvars, kvars >>

vars == << pc, context, qvars, rvars, ovars >>

NoDryRun == [sql |-> <<>>, accepted |-> FALSE, raised |-> FALSE,
             ret |-> <<FALSE, <<>>>>]

\* No operation other than query_to_sql, validate_and_fix or
\* retrieve_context is being followed.
\* The managers of the store: one VectorDBManager per component.
Managers == {"text2sql", "builder", "retriever"}

\* No knowledge base operation has been started.
NoOperation == [name |-> "none", manager |-> "none", docs |-> {}, pre |-> {}, cleared |-> FALSE]

\* No statement has been tried on a connection.
DryRunIdle ==
    /\ session = {}
    /\ dry_runs = 0
    /\ last_dry = NoDryRun

\* The parser has not been called.
ParserIdle ==
    /\ user_query = <<>>
    /\ parsed = <<>>

\* The store is empty and every component is connected to it.
KnowledgeIdle ==
    /\ collection = {}
    /\ exists = TRUE
    /\ live = [m \in Managers |-> TRUE]
    /\ kpc = "idle"
    /\ kop = NoOperation
    /\ kerror = <<>>
    /\ file = <<>>
    /\ exported = <<>>
    /\ observation = <<>>
    /\ ops = 0

OthersIdle ==
    /\ DryRunIdle
    /\ ParserIdle
    /\ KnowledgeIdle

\* No retrieve_context call is being followed.
RetrievalIdle ==
    /\ use_hybrid_search = TRUE
    /\ score_threshold = 5
    /\ searches = <<>>
    /\ all_results = <<>>
    /\ unique_results = <<>>

query == <<"how", "many", "users", "per", "city">>

Dialects == {"mysql", "postgresql", "sqlite"}

NoContext == [tables |-> <<>>, schema_text |-> <<>>]

NoSQL == SQL({}, {}, {}, {})

\* Variant of attempt_range: one iteration too many.
attempt_range_off_by_one(max) == 1..(max + 1)

\* range(1, max_correction_attempts + 1)
attempt_range(max) == 1..max

\* Variant of failure_message: the last error is left out.
failure_message_without_error(max, err) ==
    <<"Failed", "after", ToString(max), "correction", "attempts.">>

\* The message stored when the loop ends without a valid candidate.
failure_message(max, err) ==
    <<"Failed", "after", ToString(max), "correction", "attempts.",
      "Last", "error:">> \o err

\* The result fields set when the initial candidate validates.
initial_valid(res, fixed) ==
    [res EXCEPT !.sql = Some(fixed), !.is_valid = TRUE]

\* Variant of corrected_valid: the attempt number is not stored.
corrected_valid_without_count(res, fixed, k) ==
    [res EXCEPT !.sql = Some(fixed), !.is_valid = TRUE]

\* The result fields set when the candidate of a correction attempt validates.
corrected_valid(res, fixed, k) ==
    [res EXCEPT !.sql = Some(fixed), !.is_valid = TRUE,
                !.correction_attempts = k]

\* Variant of after_validation: the loop goes on after a valid candidate.
after_validation_without_break(valid) == "loop"

\* Where the control goes after a validate_and_fix call of the loop.
after_validation(valid) == IF valid THEN "execute" ELSE "loop"

\* Variant of next_failing_sql: the failing SQL is never replaced.
next_failing_sql_stale(old_sql, corrected) == old_sql

\* The last failing SQL after a failed correction attempt.
next_failing_sql(old_sql, corrected) == corrected

\* Variant of failed_attempt_result: the corrected candidate is stored.
failed_attempt_result_updated(res, corrected) ==
    [res EXCEPT !.sql = Some(corrected)]

\* The result after a correction attempt whose candidate failed the
\* validation: the else branch only moves the local sql on.
failed_attempt_result(res, corrected) == res

\* Variant of next_attempt: the failed attempt is run again.
next_attempt_in_place(k) == k

\* The loop variable after a failed attempt: the next value of the range.
next_attempt(k) == k + 1

\* Variant of on_exception: the exception text is dropped.
on_exception_swallowed(res, e) == res

\* except Exception as e: result['error'] = str(e)
on_exception(res, e) == [res EXCEPT !.error = Some(e)]

\* Variant of execute_arg: the candidate handed to the validation is executed.
execute_arg_candidate(candidate, fixed) == candidate

\* The argument of execute_query: the SQL returned by validate_and_fix.
execute_arg(candidate, fixed) == fixed

\* Variant of after_execute: a failed execution goes on with the loop.
after_execute_retry(success) == IF success THEN "done" ELSE "loop"

\* Where the control goes after execute_query: to the return, whether the
\* execution succeeded or not.
after_execute(success) == "done"

\* Variant of exhausted_result: no message when there was no budget.
exhausted_result_silent(res, max, err) ==
    IF ~res.is_valid /\ max > 0
    THEN [res EXCEPT !.error = Some(failure_message(max, err[1]))]
    ELSE res

\* The result after the loop: the failure message when no candidate validated.
exhausted_result(res, max, err) ==
    IF ~res.is_valid
    THEN [res EXCEPT !.error = Some(failure_message(max, err[1]))]
    ELSE res

Init ==
    /\ pc = "start"
    /\ max_correction_attempts \in 0..MaxAttempts
    /\ dialect \in Dialects
    /\ engine \in BOOLEAN
    /\ context = NoContext
    /\ result = [sql |-> None, is_valid |-> FALSE, execution_results |-> None,
                 correction_attempts |-> 0, error |-> None,
                 execution_error |-> None]
    /\ sql = NoSQL
    /\ corrected_sql = NoSQL
    /\ is_valid = FALSE
    /\ fixed_sql = NoSQL
    /\ error = None
    /\ attempt = 0
    /\ correction_prompt = NoPrompt
    /\ calls = <<>>
    /\ llm_prompt = NoPrompt
    /\ last_validation = [arg |-> NoSQL, is_valid |-> FALSE, sql |-> NoSQL,
                          error |-> None, stages |-> <<>>]
    /\ executed = None
    /\ exit = "running"
    /\ RetrievalIdle
    /\ OthersIdle

\* The except clause of query_to_sql, then `return result`.
Raise(e) ==
    /\ result' = on_exception(result, e)
    /\ pc' = "done"
    /\ exit' = "exception"

\* Steps 1-2: parse_query and retrieve_context.
Retrieve ==
    /\ pc = "start"
    /\ UNCHANGED << rvars, ovars >>
    /\ \/ /\ \E c \in Contexts : context' = c
          /\ pc' = "generate"
          /\ UNCHANGED << result, exit >>
       \/ /\ Raise(ExcText("retrieve"))
          /\ UNCHANGED context
    /\ UNCHANGED << max_correction_attempts, dialect, engine, sql,
                    corrected_sql, is_valid, fixed_sql, error, attempt,
                    correction_prompt, calls, llm_prompt, last_validation,
                    executed >>

\* Step 3: _generate_sql; the LLM returns a candidate or raises.
Generate ==
    /\ pc = "generate"
    /\ UNCHANGED << rvars, ovars >>
    /\ calls' = Append(calls, "generate")
    /\ llm_prompt' = generate_sql_prompt(
                        build_sql_generation_prompt(query, context),
                        context.schema_text)
    /\ \/ /\ \E c \in Candidates :
                /\ sql' = c
                /\ result' = [result EXCEPT !.sql = Some(c)]
          /\ pc' = "validate"
          /\ UNCHANGED exit
       \/ /\ Raise(ExcText("llm"))
          /\ UNCHANGED sql
    /\ UNCHANGED << max_correction_attempts, dialect, engine, context,
                    corrected_sql, is_valid, fixed_sql, error, attempt,
                    correction_prompt, last_validation, executed >>

\* The record of a validate_and_fix call.
Validation(arg, r) ==
    [arg |-> arg, is_valid |-> r.is_valid, sql |-> r.sql, error |-> r.error,
     stages |-> r.stages]

\* Step 4: validate_and_fix on the initial candidate.
Validate ==
    /\ pc = "validate"
    /\ UNCHANGED << rvars, ovars >>
    /\ calls' = Append(calls, "validate")
    /\ \E r \in validation_results(sql, context, engine, dialect) :
             /\ engine' = r.engine
             /\ IF r.raised
                THEN /\ Raise(r.error[1])
                     /\ UNCHANGED << is_valid, fixed_sql, error, attempt,
                                     last_validation >>
                ELSE /\ is_valid' = r.is_valid
                     /\ fixed_sql' = r.sql
                     /\ error' = r.error
                     /\ last_validation' = Validation(sql, r)
                     /\ IF r.is_valid
                        THEN /\ result' = initial_valid(result, r.sql)
                             /\ pc' = "execute"
                             /\ UNCHANGED attempt
                        ELSE /\ attempt' = 1
                             /\ pc' = "loop"
                             /\ UNCHANGED result
                     /\ UNCHANGED exit
    /\ UNCHANGED << max_correction_attempts, dialect, context, sql,
                    corrected_sql, correction_prompt, llm_prompt, executed >>

\* execute_query(fixed_sql): connect if there is no engine (outside the try
\* block), then run the statement; `break` or the end of the branch follows.
Execute ==
    /\ pc = "execute"
    /\ UNCHANGED << rvars, ovars >>
    /\ calls' = Append(calls, "execute")
    /\ executed' = Some(execute_arg(sql, fixed_sql))
    /\ \/ /\ ~engine
          /\ Raise(ExcText("connect"))
          /\ UNCHANGED engine
       \/ /\ engine' = TRUE
          /\ \/ /\ result' = [result EXCEPT
                                !.execution_results = Some(<<"rows">>)]
                /\ pc' = after_execute(TRUE)
             \/ /\ result' = [result EXCEPT
                                !.execution_error =
                                    Some(<<"Execution", "failed:">>
                                         \o ExcText("database"))]
                /\ pc' = after_execute(FALSE)
          /\ exit' = "valid"
    /\ UNCHANGED << max_correction_attempts, dialect, context, sql,
                    corrected_sql, is_valid, fixed_sql, error, attempt,
                    correction_prompt, llm_prompt, last_validation >>

\* Step 5, first half of an iteration: build_correction_prompt, then
\* correct_sql; the LLM returns a candidate or raises.
Correct ==
    /\ pc = "loop"
    /\ UNCHANGED << rvars, ovars >>
    /\ attempt \in attempt_range(max_correction_attempts)
    /\ correction_prompt' =
          build_correction_prompt(query, sql, error, context, attempt)
    /\ calls' = Append(calls, "generate")
    /\ llm_prompt' = correct_sql_prompt(query, sql, error, context.schema_text)
    /\ \/ /\ \E c \in Candidates : corrected_sql' = c
          /\ pc' = "validate_corrected"
          /\ UNCHANGED << result, exit >>
       \/ /\ Raise(ExcText("llm"))
          /\ UNCHANGED corrected_sql
    /\ UNCHANGED << max_correction_attempts, dialect, engine, context, sql,
                    is_valid, fixed_sql, error, attempt, last_validation,
                    executed >>

\* Second half of an iteration: validate_and_fix on the corrected candidate.
ValidateCorrected ==
    /\ pc = "validate_corrected"
    /\ UNCHANGED << rvars, ovars >>
    /\ calls' = Append(calls, "validate")
    /\ \E r \in validation_results(corrected_sql, context, engine, dialect) :
             /\ engine' = r.engine
             /\ IF r.raised
                THEN /\ Raise(r.error[1])
                     /\ UNCHANGED << is_valid, fixed_sql, error, attempt,
                                     last_validation, sql >>
                ELSE /\ is_valid' = r.is_valid
                     /\ fixed_sql' = r.sql
                     /\ error' = r.error
                     /\ last_validation' = Validation(corrected_sql, r)
                     /\ pc' = after_validation(r.is_valid)
                     /\ IF r.is_valid
                        THEN /\ result' = corrected_valid(result, r.sql,
                                                          attempt)
                             /\ UNCHANGED << attempt, sql >>
                        ELSE /\ sql' = next_failing_sql(sql, corrected_sql)
                             /\ attempt' = next_attempt(attempt)
                             /\ result' = failed_attempt_result(
                                              result, corrected_sql)
                     /\ UNCHANGED exit
    /\ UNCHANGED << max_correction_attempts, dialect, context, corrected_sql,
                    correction_prompt, llm_prompt, executed >>

\* The range is exhausted: `if not result['is_valid']` stores the failure
\* message, and the result is returned.
Exhausted ==
    /\ pc = "loop"
    /\ UNCHANGED << rvars, ovars >>
    /\ attempt \notin attempt_range(max_correction_attempts)
    /\ result' = exhausted_result(result, max_correction_attempts, error)
    /\ pc' = "done"
    /\ exit' = "exhausted"
    /\ UNCHANGED << max_correction_attempts, dialect, engine, context, sql,
                    corrected_sql, is_valid, fixed_sql, error, attempt,
                    correction_prompt, calls, llm_prompt, last_validation,
                    executed >>

Next ==
    \/ Retrieve
    \/ Generate
    \/ Validate
    \/ Execute
    \/ Correct
    \/ ValidateCorrected
    \/ Exhausted

Spec == Init /\ [][Next]_vars

\* The control points of query_to_sql.
ProgramPoints ==
    {"start", "generate", "validate", "execute", "loop", "validate_corrected",
     "done"}

\* The control leaves its point: the pending collaborator call returned or
\* raised, or the interpreter went on with the next statement.
Advance == pc # "done" /\ pc' \in ProgramPoints \ {pc}

\* Every collaborator call returns or fails, and the interpreter goes on:
\* the control does not stay forever at a point before the return.  A
\* step of Spec that moves the control is a step of Next.
FairSpec == Spec /\ WF_pc(Advance)

\* ------------------------------------------------------------------------
\* validate_and_fix on its own
\* ------------------------------------------------------------------------

\* The SQL texts handed to validate_and_fix: the candidates, and queries
\* over two tables with unqualified and qualified columns.
ValidatorInputs ==
    Candidates \cup
    { SQL({users, audit}, {<<"id">>}, {}, {}),
      SQL({users, audit}, {<<"msg">>}, {}, {}),
      SQL({users, audit}, {<<"username">>, <<"msg">>}, {}, {}),
      SQL({users, audit}, {<<"bad">>}, {}, {}),
      Qualified(SQL({users, audit}, {}, {}, {}),
                {QCol(users, <<"username">>), QCol(audit, <<"msg">>)}),
      Qualified(SQL({users, audit}, {<<"id">>}, {}, {}),
                {QCol(users, <<"msg">>)}) }

InitV ==
    /\ pc = "validator"
    /\ sql \in ValidatorInputs
    /\ context \in Contexts
    /\ dialect \in Dialects
    /\ engine \in BOOLEAN
    /\ max_correction_attempts = 0
    /\ result = [sql |-> None, is_valid |-> FALSE, execution_results |-> None,
                 correction_attempts |-> 0, error |-> None,
                 execution_error |-> None]
    /\ corrected_sql = NoSQL
    /\ is_valid = FALSE
    /\ fixed_sql = NoSQL
    /\ error = None
    /\ attempt = 0
    /\ correction_prompt = NoPrompt
    /\ calls = <<>>
    /\ llm_prompt = NoPrompt
    /\ last_validation = [arg |-> NoSQL, is_valid |-> FALSE, sql |-> NoSQL,
                          error |-> None, stages |-> <<>>]
    /\ executed = None
    /\ exit = "running"
    /\ RetrievalIdle
    /\ OthersIdle

\* One call validate_and_fix(sql, context); it returns or, when connecting
\* fails, raises.
ValidateAndFix ==
    /\ pc = "validator"
    /\ UNCHANGED << rvars, ovars >>
    /\ \E r \in validation_results(sql, context, engine, dialect) :
          /\ engine' = r.engine
          /\ last_validation' = Validation(sql, r)
          /\ is_valid' = r.is_valid
          /\ fixed_sql' = r.sql
          /\ error' = r.error
          /\ pc' = IF r.raised THEN "raised" ELSE "returned"
    /\ UNCHANGED << max_correction_attempts, dialect, context, result, sql,
                    corrected_sql, attempt, correction_prompt, calls,
                    llm_prompt, executed, exit >>

NextV == ValidateAndFix

SpecV == InitV /\ [][NextV]_vars

\* ------------------------------------------------------------------------
\* RAGRetriever.retrieve_context
\* ------------------------------------------------------------------------

\* top_k, the most results one search returns (settings.rag_top_k is 3).
TopK == 2

\* The values of score_threshold, in tenths (settings.rag_score_threshold
\* is 0.5).
Thresholds == {2, 5}

\* The distances the store reports, in tenths: 0.5 is the boundary of the
\* threshold 0.5, and 0.7 is beyond it and within that of the threshold 0.2.
Distances == {5, 7}

orders == <<"orders">>

customers == <<"customers">>

\* An entry of metadata['foreign_keys'].
ForeignKey(column, table, to_column) ==
    [column |-> column,
     references |-> [table |-> table, column |-> to_column]]

\* A document of type 'table' of the store.
TableDocument(id, table_name, columns, foreign_keys) ==
    [id |-> id, document |-> table_name \o <<"schema">>,
     metadata |-> [type |-> "table", table_name |-> table_name,
                   columns |-> columns, foreign_keys |-> foreign_keys]]

\* The table documents of the store: orders refers to customers and to
\* products, which the store does not hold; customers is there twice,
\* under two identifiers.
Store ==
    { TableDocument("table_orders", orders,
                    {<<"id">>, <<"customer_id">>, <<"product_id">>},
                    << ForeignKey(<<"customer_id">>, customers, <<"id">>),
                       ForeignKey(<<"product_id">>, <<"products">>,
                                  <<"id">>) >>),
      TableDocument("table_customers", customers, {<<"id">>, <<"name">>},
                    <<>>),
      TableDocument("crm_customers", customers, {<<"id">>, <<"city">>},
                    <<>>) }

\* formatted_results: one entry of what VectorDB.search returns.
formatted_result(doc, distance) ==
    [document |-> doc.document, metadata |-> doc.metadata,
     distance |-> distance, id |-> doc.id]

\* What one VectorDB.search call can return: at most TopK entries.
SearchResults ==
    LET hits == { formatted_result(d, x) : d \in Store, x \in Distances }
    IN  UNION { [1..n -> hits] : n \in 0..TopK }

\* The queries retrieve_context searches for.
search_queries(hybrid) ==
    IF hybrid THEN <<"query", "enhanced_query">> ELSE <<"query">>

\* Variant of within_threshold: the boundary is excluded.
within_threshold_strict(r, threshold) == r.distance < 10 - threshold

\* The test of the filter: r['distance'] <= (1 - score_threshold), on
\* tenths.  The float subtraction is exact for a score_threshold of 0.5 and
\* more, and rounds to the nearest float below that.
within_threshold(r, threshold) == r.distance <= 10 - threshold

filtered_results(results, threshold) ==
    SelectSeq(results, LAMBDA r : within_threshold(r, threshold))

RECURSIVE deduplicate(_, _, _)
\* The loop of _deduplicate_results over the results left.
deduplicate(results, seen_ids, unique) ==
    IF results = <<>> THEN unique
    ELSE LET r == Head(results)
         IN  IF r.id \notin seen_ids
             THEN deduplicate(Tail(results), seen_ids \cup {r.id},
                              Append(unique, r))
             ELSE deduplicate(Tail(results), seen_ids, unique)

\* Variant of deduplicate_results: every result is kept.
deduplicate_results_keep_all(results) == results

deduplicate_results(results) == deduplicate(results, {}, <<>>)

RECURSIVE Flatten(_)
\* The concatenation of a sequence of sequences.
Flatten(seqs) ==
    IF seqs = <<>> THEN <<>> ELSE Head(seqs) \o Flatten(Tail(seqs))

\* Variant of in_table_map: every reference is kept.
in_table_map_always(referenced_table, table_map) == TRUE

\* referenced_table in table_map, table_map given by its keys.
in_table_map(referenced_table, table_map) == referenced_table \in table_map

\* The relationships _extract_relationships appends for one table.
table_relationships(table, table_map) ==
    LET kept == SelectSeq(table.metadata.foreign_keys,
                          LAMBDA fk : in_table_map(fk.references.table,
                                                   table_map))
    IN  [ j \in 1..Len(kept) |->
            [from_table |-> table.name,
             from_column |-> kept[j].column,
             to_table |-> kept[j].references.table,
             to_column |-> kept[j].references.column] ]

extract_relationships(tables) ==
    LET table_map == { tables[i].name : i \in 1..Len(tables) }
    IN  Flatten([ i \in 1..Len(tables) |->
                    table_relationships(tables[i], table_map) ])

\* The entry of context['tables'] for one result.
table_entry(r) ==
    [name |-> r.metadata.table_name, document |-> r.document,
     metadata |-> r.metadata, score |-> r.distance]

build_context(results, business_rules) ==
    LET tables == [ i \in 1..Len(results) |-> table_entry(results[i]) ]
    IN  [tables |-> tables,
         relationships |-> IF Len(tables) > 1
                           THEN extract_relationships(tables)
                           ELSE <<>>,
         schema_text |-> Flatten([ i \in 1..Len(tables) |->
                                     <<"Table:">> \o tables[i].name
                                         \o tables[i].document ]),
         business_rules |-> business_rules]

InitR ==
    /\ pc = "retrieve"
    /\ use_hybrid_search \in BOOLEAN
    /\ score_threshold \in Thresholds
    /\ searches = <<>>
    /\ all_results = <<>>
    /\ unique_results = <<>>
    /\ context = NoContext
    /\ max_correction_attempts = 0
    /\ dialect = "mysql"
    /\ engine = FALSE
    /\ result = [sql |-> None, is_valid |-> FALSE, execution_results |-> None,
                 correction_attempts |-> 0, error |-> None,
                 execution_error |-> None]
    /\ sql = NoSQL
    /\ corrected_sql = NoSQL
    /\ is_valid = FALSE
    /\ fixed_sql = NoSQL
    /\ error = None
    /\ attempt = 0
    /\ correction_prompt = NoPrompt
    /\ calls = <<>>
    /\ llm_prompt = NoPrompt
    /\ last_validation = [arg |-> NoSQL, is_valid |-> FALSE, sql |-> NoSQL,
                          error |-> None, stages |-> <<>>]
    /\ executed = None
    /\ exit = "running"
    /\ OthersIdle

\* One iteration of the loop over search_queries: the search returns its
\* results, which are filtered and appended, or it raises and
\* retrieve_context raises.
Search ==
    /\ pc = "retrieve"
    /\ Len(searches) < Len(search_queries(use_hybrid_search))
    /\ \/ \E results \in SearchResults :
             /\ searches' = Append(searches, results)
             /\ all_results' =
                   all_results \o filtered_results(results, score_threshold)
             /\ UNCHANGED pc
       \/ /\ pc' = "raised"
          /\ UNCHANGED << searches, all_results >>
    /\ UNCHANGED << context, qvars, ovars, use_hybrid_search,
                    score_threshold, unique_results >>

\* After the loop: _deduplicate_results, then _build_context, which asks
\* the store for the business rules; the context is returned.
BuildContext ==
    /\ pc = "retrieve"
    /\ Len(searches) = Len(search_queries(use_hybrid_search))
    /\ unique_results' = deduplicate_results(all_results)
    /\ \E business_rules \in {None, Some(<<"rules">>)} :
          context' = build_context(unique_results', business_rules)
    /\ pc' = "returned"
    /\ UNCHANGED << qvars, ovars, use_hybrid_search, score_threshold,
                    searches, all_results >>

NextR ==
    \/ Search
    \/ BuildContext

SpecR == InitR /\ [][NextR]_vars

\* ------------------------------------------------------------------------
\* SQLValidator.dry_run, call after call on one validator
\* ------------------------------------------------------------------------

\* The most dry_run calls followed on one validator.
MaxDryRuns == 3

\* The values of the locals of query_to_sql before any invocation.
PipelineIdle ==
    /\ context = NoContext
    /\ max_correction_attempts = 0
    /\ result = [sql |-> None, is_valid |-> FALSE, execution_results |-> None,
                 correction_attempts |-> 0, error |-> None,
                 execution_error |-> None]
    /\ sql = NoSQL
    /\ corrected_sql = NoSQL
    /\ is_valid = FALSE
    /\ fixed_sql = NoSQL
    /\ error = None
    /\ attempt = 0
    /\ correction_prompt = NoPrompt
    /\ calls = <<>>
    /\ llm_prompt = NoPrompt
    /\ last_validation = [arg |-> NoSQL, is_valid |-> FALSE, sql |-> NoSQL,
                          error |-> None, stages |-> <<>>]
    /\ executed = None
    /\ exit = "running"

\* What the backend answers to the statement of the dry run on a
\* connection whose session holds the prepared statements sess: PREPARE
\* test_plan fails when the session has a test_plan already; otherwise the
\* statement succeeds when the backend accepts the SQL.
backend_outcome(dialect_, sess, accepted) ==
    IF dialect_ = "postgresql" /\ "test_plan" \in sess THEN "fail"
    ELSE IF accepted THEN "ok" ELSE "fail"

\* The session of the connection after the statement of the dry run:
\* PREPARE adds test_plan when it succeeds; nothing deallocates it.
session_after(dialect_, sess, accepted) ==
    IF dialect_ = "postgresql" /\ accepted THEN sess \cup {"test_plan"}
    ELSE sess

InitD ==
    /\ pc = "validator"
    /\ dialect \in Dialects
    /\ engine \in BOOLEAN
    /\ PipelineIdle
    /\ RetrievalIdle
    /\ OthersIdle

\* One dry_run(sql) call: connect if there is no engine, take a connection
\* from the pool of the engine (the one used before, or a new one), run
\* the statement of the dialect on it and return.
DryRun ==
    /\ pc = "validator"
    /\ dry_runs < MaxDryRuns
    /\ \E s \in Candidates, accepted \in BOOLEAN, fresh \in BOOLEAN,
          syn \in SyntaxOutcomes, connect \in {"ok", "raise"} :
          LET sess == IF fresh THEN {} ELSE session
              o == [syn |-> syn, connect |-> connect,
                    dry |-> backend_outcome(dialect, sess, accepted)]
              r == dry_run(s, engine, dialect, o)
          IN  /\ engine' = r.engine
              /\ last_dry' = [sql |-> s, accepted |-> accepted,
                              raised |-> r.raised, ret |-> r.ret]
              /\ session' = IF r.raised
                               \/ dialect \notin {"mysql", "postgresql"}
                            THEN session
                            ELSE session_after(dialect, sess, accepted)
    /\ dry_runs' = dry_runs + 1
    /\ UNCHANGED << pc, context, rvars, pvars, kvars,
                    max_correction_attempts, dialect,
                    result, sql, corrected_sql, is_valid, fixed_sql, error,
                    attempt, correction_prompt, calls, llm_prompt,
                    last_validation, executed, exit >>

NextD == DryRun

SpecD == InitD /\ [][NextD]_vars

\* ------------------------------------------------------------------------
\* QueryParser.parse_query
\* ------------------------------------------------------------------------
\* A query is the sequence of its characters; a Chinese character is
\* written by its romanisation (ge4 is the ge of "ge4 ge", each one).

\* The most words of a query made of the words of the intent groups.
MaxWords == 3

\* str.lower() on one character.
lower_char(c) ==
    CASE c = "T" -> "t" [] c = "O" -> "o" [] c = "P" -> "p" [] OTHER -> c

\* str.lower()
lower(text) == [ i \in 1..Len(text) |-> lower_char(text[i]) ]

\* any(word in text for word in words)
any_in(text, words) == \E w \in words : Contains(text, w)

\* The keyword lists of _classify_intent, in the order of its branches.
intent_words ==
    << [intent |-> "aggregation",
        words |-> { <<"tong", "ji">>, <<"ji", "suan">>, <<"duo", "shao">>,
                    <<"ji3", "ge">> }],
       [intent |-> "extreme",
        words |-> { <<"zui", "gao">>, <<"zui", "da">>, <<"zui", "di">>,
                    <<"zui", "xiao">> }],
       [intent |-> "average",
        words |-> { <<"ping", "jun">>, <<"jun", "zhi">> }],
       [intent |-> "ranking",
        words |-> { <<"pai", "ming">>, <<"pai", "hang">>,
                    <<"t", "o", "p">> }],
       [intent |-> "trend",
        words |-> { <<"qu", "shi4">>, <<"bian", "hua">>,
                    <<"zeng", "zhang">> }],
       [intent |-> "proportion",
        words |-> { <<"zhan", "bi">>, <<"bi", "li">>,
                    <<"bai", "fen", "bi">> }] >>

RECURSIVE first_branch(_, _, _)
\* The if / elif chain from branch k on: the first branch whose list has
\* a word in the text.
first_branch(text, branches, k) ==
    IF k > Len(branches) THEN "simple"
    ELSE IF any_in(text, branches[k].words) THEN branches[k].intent
    ELSE first_branch(text, branches, k + 1)

\* Variant of branch_order: the extreme branch comes first.
branch_order_extreme_first(branches) ==
    << branches[2], branches[1] >> \o SubSeq(branches, 3, Len(branches))

\* The order in which the chain evaluates the branches: as written.
branch_order(branches) == branches

classify_intent(q) ==
    first_branch(lower(q), branch_order(intent_words), 1)

\* self.aggregation_patterns, in the insertion order of the dictionary.
aggregation_patterns ==
    << [type |-> "sum",
        patterns |-> { <<"zong", "e">>, <<"zong", "jin", "e">>,
                       <<"zong", "ji">>, <<"he", "ji">>,
                       <<"xiao1", "shou", "e">>, <<"ying", "shou1">>,
                       <<"shou1", "ru">> }],
       [type |-> "avg",
        patterns |-> { <<"ping", "jun", "zhi">>, <<"jun", "zhi">>,
                       <<"ping", "jun">>, <<"ke", "dan", "jia">>,
                       <<"ren", "jun", "xiao2", "fei">> }],
       [type |-> "max",
        patterns |-> { <<"zui", "da", "zhi">>, <<"zui", "gao">>,
                       <<"zui", "da">> }],
       [type |-> "min",
        patterns |-> { <<"zui", "xiao", "zhi">>, <<"zui", "di">>,
                       <<"zui", "xiao">> }],
       [type |-> "count",
        patterns |-> { <<"shu", "liang">>, <<"ge", "shu">>,
                       <<"zong", "shu">> }] >>

RECURSIVE first_aggregation(_, _)
\* The loop of _detect_aggregation from entry k on.
first_aggregation(text, k) ==
    IF k > Len(aggregation_patterns) THEN None
    ELSE IF any_in(text, aggregation_patterns[k].patterns)
    THEN Some(aggregation_patterns[k].type)
    ELSE first_aggregation(text, k + 1)

detect_aggregation(q) == first_aggregation(lower(q), 1)

\* \w of the regular expressions: every character of the model but the
\* space and the comma.
IsWord(c) == c \notin {" ", ","}

\* The end of the longest run of word characters that starts at i.
RECURSIVE run_end(_, _)
run_end(text, i) ==
    IF i < Len(text) /\ IsWord(text[i + 1]) THEN run_end(text, i + 1) ELSE i

RECURSIVE findall_after(_, _, _)
\* re.findall(prefix + r'(\w+)', text) from position i on: at the first
\* place where prefix is followed by a word character the group is the
\* whole run of word characters; the search goes on after the match.
findall_after(prefix, text, i) ==
    LET n == Len(prefix)
    IN  IF i + n > Len(text) THEN <<>>
        ELSE IF SubSeq(text, i, i + n - 1) = prefix /\ IsWord(text[i + n])
        THEN LET e == run_end(text, i + n)
             IN  << SubSeq(text, i + n, e) >>
                     \o findall_after(prefix, text, e + 1)
        ELSE findall_after(prefix, text, i + 1)

RECURSIVE findall_before(_, _, _)
\* re.findall(r'(\w+)' + suffix, text) from position i on, suffix being
\* one word character: at the first word character that has the suffix
\* later in its run, the greedy group goes up to the last suffix of the
\* run; the search goes on after the match.
findall_before(suffix, text, i) ==
    IF i > Len(text) THEN <<>>
    ELSE IF ~IsWord(text[i]) THEN findall_before(suffix, text, i + 1)
    ELSE LET e == run_end(text, i)
             ends == { k \in (i + 1)..e : text[k] = suffix }
             last == CHOOSE k \in ends : \A j \in ends : j <= k
         IN  IF ends = {} THEN findall_before(suffix, text, e + 1)
             ELSE << SubSeq(text, i, last - 1) >>
                     \o findall_before(suffix, text, last + 1)

\* _extract_dimensions: the groups of the four patterns, as a set.
extract_dimensions(q) ==
    LET dimensions == findall_after(<<"an">>, q, 1)
                        \o findall_before("de", q, 1)
                        \o findall_after(<<"mei", "ge">>, q, 1)
                        \o findall_after(<<"ge4", "ge">>, q, 1)
    IN  { dimensions[i] : i \in 1..Len(dimensions) }

\* The fields of parse_query that the model follows.
parse_query(q) ==
    [original_query |-> q,
     dimensions |-> extract_dimensions(q),
     intent |-> classify_intent(q),
     aggregation_type |-> detect_aggregation(q)]

\* Words that queries are made of: keywords of every intent group, in
\* both cases, parts of keywords, and other words.
QueryWords ==
    { <<"tong", "ji">>, <<"zui", "gao">>, <<"ping", "jun">>,
      <<"T", "O", "P">>, <<"pai">>, <<"ming">>, <<"zeng", "zhang">>,
      <<"zhan", "bi">>, <<"yong", "hu">>, <<" ">> }

\* The queries of at most MaxWords of these words.
IntentQueries ==
    { Flatten(ws) : ws \in UNION { [1..n -> QueryWords] : n \in 0..MaxWords } }

\* Queries with a grouping indicator: "mei ge" (every) or "ge4 ge" (each)
\* and a name, then "de" or a space, then more text or nothing.
GroupingQueries ==
    { p \o g \o x \o sep \o r :
        p \in { <<>>, <<"tong", "ji">>, <<"cha", "xun">> },
        g \in { <<"mei", "ge">>, <<"ge4", "ge">>, <<"an">> },
        x \in { <<"cheng", "shi">>, <<"bu", "men">> },
        sep \in { <<"de">>, <<" ">> },
        r \in { <<>>, <<"yong", "hu", "shu", "liang">>,
                 <<"xiao1", "shou", "e">> } }

Queries == IntentQueries \cup GroupingQueries

InitP ==
    /\ pc = "parser"
    /\ user_query \in Queries
    /\ parsed = <<>>
    /\ DryRunIdle
    /\ KnowledgeIdle
    /\ dialect = "mysql"
    /\ engine = FALSE
    /\ PipelineIdle
    /\ RetrievalIdle

\* One parse_query(query) call.
Parse ==
    /\ pc = "parser"
    /\ parsed' = << parse_query(user_query) >>
    /\ pc' = "parsed"
    /\ UNCHANGED << context, qvars, rvars, dvars, kvars, user_query >>

NextP == Parse

SpecP == InitP /\ [][NextP]_vars

\* ------------------------------------------------------------------------
\* The knowledge store: build, export, import, and a retriever beside them
\* ------------------------------------------------------------------------

\* The most knowledge base operations of one run.
MaxOps == 3

\* The limit of list_documents (100 in the source), scaled down.
ListLimit == 2

\* The tables that the database may hold.
TableNames == {"orders", "customers", "products"}

\* The runs of the builder: the time of a run goes into its documents.
Builds == {1, 2}

\* _create_table_chunk: the document of a table, made by the run at time v.
create_table_chunk(table_name, v) ==
    [id |-> <<"table_", table_name>>,
     document |-> <<"# Table: ", table_name>>,
     metadata |-> [type |-> "table", table_name |-> table_name,
                   created_at |-> v]]

\* _create_business_chunk
create_business_chunk(v) ==
    [id |-> <<"business_rules">>,
     document |-> <<"# Business Rules and Definitions">>,
     metadata |-> [type |-> "business", table_name |-> "",
                   created_at |-> v]]

\* _create_chunks: one chunk per table, one more for the business rules
\* if there are any.
create_chunks(tables, business_rules, v) ==
    { create_table_chunk(t, v) : t \in tables }
        \cup (IF business_rules THEN { create_business_chunk(v) } ELSE {})

\* count_documents through the handle of manager m: the exception of a
\* handle to a collection that is gone is swallowed, and the count is 0.
count_documents(m) == IF live[m] THEN Cardinality(collection) ELSE 0

\* Variant of deleted_collection: the documents outlive the collection.
deleted_collection_keeps_documents(docs) == docs

\* client.delete_collection(name): the documents go with the collection.
deleted_collection(docs) == {}

\* collection.add: a document whose id is there already is left as it is.
added(docs, new) ==
    docs \cup { d \in new : \A e \in docs : e.id # d.id }

\* Variant of after_failed_add: the documents from before are put back.
after_failed_add_restored(docs, pre) == pre

\* add_documents raised: it is logged and raised again, nothing else.
after_failed_add(docs, pre) == docs

\* Variant of list_entry: the text is listed too.
list_entry_with_document(d) == d

\* One entry of list_documents: the id and the metadata (include =
\* ['metadatas']).
list_entry(d) == [id |-> d.id, metadata |-> d.metadata]

\* What collection.get(limit = ListLimit) may return: as many documents
\* as the limit allows, which ones being up to the store.
listings ==
    LET n == IF Cardinality(collection) < ListLimit
             THEN Cardinality(collection) ELSE ListLimit
    IN  { { list_entry(d) : d \in S } :
            S \in { T \in SUBSET collection : Cardinality(T) = n } }

\* doc.get(key, default) on an entry of the file.
doc_get(entry, key, default) ==
    IF key \in DOMAIN entry THEN entry[key] ELSE default

\* The documents that import_knowledge_base hands to add_documents.
imported(documents) ==
    { [id |-> e.id, document |-> doc_get(e, "document", <<>>),
       metadata |-> doc_get(e, "metadata", <<>>)] : e \in documents }

InitK ==
    /\ pc = "knowledge"
    /\ collection \in { {}, create_chunks({"orders"}, FALSE, 1),
                        create_chunks(TableNames, TRUE, 1) }
    /\ exists = TRUE
    /\ live = [m \in Managers |-> TRUE]
    /\ kpc = "idle"
    /\ kop = NoOperation
    /\ kerror = <<>>
    /\ file = <<>>
    /\ exported = <<>>
    /\ observation = <<>>
    /\ ops = 0
    /\ DryRunIdle
    /\ ParserIdle
    /\ dialect = "mysql"
    /\ engine = FALSE
    /\ PipelineIdle
    /\ RetrievalIdle

\* What no action on the store changes.
kfixed == << pc, context, qvars, rvars, dvars, pvars >>

\* build_knowledge_base up to _store_chunks: return at once if the store
\* has documents and the rebuild is not forced; else extract the metadata
\* (which may raise) and make the chunks.
StartBuild ==
    /\ kpc = "idle"
    /\ ops < MaxOps
    /\ \E force_rebuild \in BOOLEAN, extract \in {"ok", "raise"},
          tables \in { {"orders"}, TableNames },
          business_rules \in BOOLEAN, v \in Builds :
          LET op == [name |-> "build", manager |-> "builder",
                     docs |-> create_chunks(tables, business_rules, v),
                     pre |-> collection, cleared |-> FALSE]
          IN  IF ~force_rebuild /\ count_documents("text2sql") > 0
              THEN /\ kop' = [op EXCEPT !.docs = {}]
                   /\ kerror' = <<>>
                   /\ kpc' = "idle"
              ELSE IF extract = "raise"
              THEN /\ kop' = [op EXCEPT !.docs = {}]
                   /\ kerror' = << "extract_metadata" >>
                   /\ kpc' = "idle"
              ELSE /\ kop' = op
                   /\ kerror' = <<>>
                   /\ kpc' = "count"
    /\ ops' = ops + 1
    /\ UNCHANGED << kfixed, collection, exists, live, file, exported, observation >>

\* _store_chunks: clear the collection if it counts any document.
Count ==
    /\ kpc = "count"
    /\ kpc' = IF count_documents(kop.manager) > 0 THEN "delete" ELSE "add"
    /\ UNCHANGED << kfixed, collection, exists, live, kop, kerror, file, exported, observation, ops >>

\* import_knowledge_base up to clear_collection: load the file (which
\* raises if there is none).
StartImport ==
    /\ kpc = "idle"
    /\ ops < MaxOps
    /\ LET op == [name |-> "import", manager |-> "text2sql", docs |-> {},
                  pre |-> collection, cleared |-> FALSE]
       IN  IF file = <<>>
           THEN /\ kop' = op
                /\ kerror' = << "open" >>
                /\ kpc' = "idle"
           ELSE /\ kop' = [op EXCEPT !.docs = imported(file[1])]
                /\ kerror' = <<>>
                /\ kpc' = "delete"
    /\ ops' = ops + 1
    /\ UNCHANGED << kfixed, collection, exists, live, file, exported, observation >>

\* clear_collection, first half: the collection is deleted by name, and
\* with it goes what every manager holds.
Delete ==
    /\ kpc = "delete"
    /\ collection' = deleted_collection(collection)
    /\ exists' = FALSE
    /\ live' = [m \in Managers |-> FALSE]
    /\ kop' = [kop EXCEPT !.cleared = TRUE]
    /\ kpc' = "create"
    /\ UNCHANGED << kfixed, kerror, file, exported, observation, ops >>

\* clear_collection, second half: self.collection = get_or_create.
Create ==
    /\ kpc = "create"
    /\ exists' = TRUE
    /\ live' = [live EXCEPT ![kop.manager] = TRUE]
    /\ kpc' = "add"
    /\ UNCHANGED << kfixed, collection, kop, kerror, file, exported, observation, ops >>

\* add_documents, and the return or the raise of the operation.
Add ==
    /\ kpc = "add"
    /\ \E ok \in BOOLEAN :
          IF live[kop.manager] /\ ok
          THEN /\ collection' = added(collection, kop.docs)
               /\ kerror' = <<>>
          ELSE /\ collection' = after_failed_add(collection, kop.pre)
               /\ kerror' = << "add_documents" >>
    /\ kpc' = "idle"
    /\ UNCHANGED << kfixed, exists, live, kop, file, exported, observation, ops >>

\* export_knowledge_base: list_documents gives [] if it fails.
Export ==
    /\ kpc = "idle"
    /\ ops < MaxOps
    /\ \E ok \in BOOLEAN, documents \in listings :
          LET listed == live["text2sql"] /\ ok
          IN  /\ file' = << IF listed THEN documents ELSE {} >>
              /\ exported' = << [source |-> collection, listed |-> listed] >>
    /\ kop' = [name |-> "export", manager |-> "text2sql", docs |-> {},
               pre |-> collection, cleared |-> FALSE]
    /\ kerror' = <<>>
    /\ ops' = ops + 1
    /\ UNCHANGED << kfixed, collection, exists, live, kpc, observation >>

\* VectorDBManager() of a retriever that starts: get_or_create_collection.
Connect ==
    /\ ~live["retriever"]
    /\ exists' = TRUE
    /\ live' = [live EXCEPT !["retriever"] = TRUE]
    /\ UNCHANGED << kfixed, collection, kpc, kop, kerror, file, exported, observation, ops >>

\* One search of the retriever: it raises on a collection that is gone,
\* else it sees the documents that are there now.
Serve ==
    /\ observation' = << [at |-> kpc, op |-> ops,
                          seen |-> IF live["retriever"]
                                   THEN << collection >> ELSE <<>>] >>
    /\ UNCHANGED << kfixed, collection, exists, live, kpc, kop, kerror, file, exported, ops >>

NextK ==
    \/ StartBuild
    \/ Count
    \/ StartImport
    \/ Delete
    \/ Create
    \/ Add
    \/ Export
    \/ Connect
    \/ Serve

SpecK == InitK /\ [][NextK]_vars

\* ------------------------------------------------------------------------
\* Properties of query_to_sql
\* ------------------------------------------------------------------------

\* Number of calls of one kind made so far.
NumCalls(kind) == Cardinality({ i \in 1..Len(calls) : calls[i] = kind })

IsGenOrVal(c) == c \in {"generate", "validate"}

\* C1: the returned correction_attempts is between 0 and max_attempts,
\* whatever the collaborators return or raise.
C1_AttemptsWithinBudget ==
    result.correction_attempts \in 0..max_correction_attempts

\* A candidate validated in the last allowed correction attempt.
C1_Witness ==
    /\ pc = "done"
    /\ max_correction_attempts >= 1
    /\ result.correction_attempts = max_correction_attempts

\* C2 (as claimed): when the loop exhausts max_attempts the result has
\* is_valid = false and correction_attempts = max_attempts.
C2_Claim ==
    exit = "exhausted" =>
        /\ ~result.is_valid
        /\ result.correction_attempts = max_correction_attempts

\* C3 (as claimed): when the loop exhausts max_attempts the error field
\* equals the error text of the last failed validation.
C3_Original ==
    exit = "exhausted" => result.error = last_validation.error

\* C3 (amended): when the loop exhausts max_attempts the error field is
\* "Failed after <max_attempts> correction attempts. Last error: " followed
\* by the error text the last failed validation returned.
C3_ErrorWrapsLastError ==
    exit = "exhausted" =>
        /\ ~last_validation.is_valid
        /\ last_validation.error # None
        /\ result.error =
              Some(<<"Failed", "after", ToString(max_correction_attempts),
                     "correction", "attempts.", "Last", "error:">>
                   \o last_validation.error[1])

\* The loop ran twice and the last validation failed on a corrected candidate.
C3_Witness ==
    /\ exit = "exhausted"
    /\ max_correction_attempts = 2
    /\ NumCalls("validate") = 3
    /\ last_validation.arg = corrected_sql

\* C4: a valid initial candidate gives is_valid = true and
\* correction_attempts = 0; a first valid candidate in correction attempt k
\* gives is_valid = true and correction_attempts = k.  The validation that
\* passed is call number k + 1.
C4_AttemptsOfSuccess ==
    last_validation.is_valid =>
        /\ result.is_valid
        /\ result.sql = Some(last_validation.sql)
        /\ result.correction_attempts = NumCalls("validate") - 1

\* A candidate of a correction attempt validated and the call returned.
C4_Witness ==
    /\ pc = "done"
    /\ last_validation.is_valid
    /\ result.correction_attempts >= 1

\* C5: once a validate_and_fix call reported valid, no generation call and
\* no validation call follows in the invocation.
C5_NoCallAfterValid ==
    [][ last_validation.is_valid =>
            (calls' = calls \/ calls' = Append(calls, "execute")) ]_vars

\* A corrected candidate validated, was executed, and the call returned.
C5_Witness ==
    /\ exit = "valid"
    /\ NumCalls("generate") >= 2
    /\ NumCalls("execute") = 1

\* C6: generation and validation calls alternate, generation first; every
\* completed iteration adds exactly one of each, and there are at most
\* 1 + max_attempts of each.
C6_OneGenerationOneValidation ==
    LET gv == SelectSeq(calls, IsGenOrVal)
    IN  /\ \A i \in 1..Len(gv) :
              gv[i] = IF i % 2 = 1 THEN "generate" ELSE "validate"
        /\ NumCalls("generate") <= 1 + max_correction_attempts
        /\ NumCalls("validate") <= 1 + max_correction_attempts
        /\ pc = "loop" =>
              /\ NumCalls("generate") = attempt
              /\ NumCalls("validate") = attempt
        /\ pc = "validate_corrected" =>
              /\ NumCalls("generate") = attempt + 1
              /\ NumCalls("validate") = attempt

\* Every iteration of the budget ran, each with its two calls.
C6_Witness ==
    /\ pc = "done"
    /\ max_correction_attempts >= 1
    /\ NumCalls("generate") = 1 + max_correction_attempts
    /\ NumCalls("validate") = 1 + max_correction_attempts

\* C7: the input of the generation call of a correction attempt holds the
\* candidate that failed the preceding validation and the error text that
\* validation returned.
C7_PromptHoldsLastFailure ==
    pc = "validate_corrected" =>
        /\ ~last_validation.is_valid
        /\ last_validation.error # None
        /\ llm_prompt.error_sql = Some(last_validation.arg)
        /\ llm_prompt.error_message = last_validation.error

\* The second correction attempt, after a corrected candidate that differs
\* from the initial one failed.
C7_Witness ==
    /\ pc = "validate_corrected"
    /\ attempt = 2
    /\ result.sql # Some(last_validation.arg)

\* C8 (as claimed): the prompt handed to the generation capability in a
\* correction iteration is the one build_correction_prompt produced.
C8_Claim ==
    pc = "validate_corrected" => llm_prompt = correction_prompt

\* ------------------------------------------------------------------------
\* Properties of validate_and_fix
\* ------------------------------------------------------------------------

\* Stage `stage` was evaluated on s and passed, at position i of the log.
Passed(log, i, stage, s) ==
    /\ log[i].stage = stage
    /\ log[i].sql = s
    /\ log[i].ok

\* C9 (as claimed): a SQL that validate_and_fix returns as valid has passed
\* syntax, semantic and dry-run, in this order.
C9_Claim ==
    last_validation.is_valid =>
        \E i, j, k \in 1..Len(last_validation.stages) :
            /\ i < j
            /\ j < k
            /\ Passed(last_validation.stages, i, "syntax", last_validation.sql)
            /\ Passed(last_validation.stages, j, "semantic",
                      last_validation.sql)
            /\ Passed(last_validation.stages, k, "dry_run",
                      last_validation.sql)

\* The auto-fix changed the SQL during the last validate_and_fix call.
FixApplied(log) ==
    \E i \in 1..Len(log) : log[i].stage = "autofix" /\ log[i].ok

\* C10 (as claimed): when the auto-fix is applied and the fixed SQL fails
\* re-validation, the reported error is the semantic error of the unfixed
\* SQL.
C10_Claim ==
    (FixApplied(last_validation.stages) /\ ~last_validation.is_valid) =>
        last_validation.error = last_validation.stages[2].error

\* The positions of the log at which _apply_basic_fixes was called.
FixCalls(log) == { i \in 1..Len(log) : log[i].stage = "autofix" }

\* C11: in one validate_and_fix call the auto-fix is tried at most once,
\* right after the semantic stage failed on the input SQL; it is never
\* tried after a syntax failure or after a dry-run failure.
C11_FixOnceAfterSemanticFailure ==
    LET log == last_validation.stages
    IN  /\ Cardinality(FixCalls(log)) <= 1
        /\ \A i \in FixCalls(log) :
              /\ i > 1
              /\ log[i - 1].stage = "semantic"
              /\ ~log[i - 1].ok
              /\ log[i - 1].sql = last_validation.arg
              /\ \A j \in 1..(i - 1) :
                    log[j].stage \in {"syntax", "dry_run"} => log[j].ok

\* The fix rewrote the SQL and the rewritten SQL failed its semantic
\* re-validation: no second fix followed.
C11_Witness ==
    /\ FixApplied(last_validation.stages)
    /\ ~last_validation.is_valid
    /\ Len(last_validation.stages) = 5
    /\ last_validation.stages[5].stage = "semantic"

\* C12: a syntax failure ends validate_and_fix: no other stage is
\* evaluated and the call returns invalid with the input SQL and the parse
\* error; and the dry run is never evaluated on a SQL whose semantic stage
\* failed.
C12_FailureIsTerminal ==
    LET log == last_validation.stages
    IN  /\ (log # <<>> /\ ~log[1].ok) =>
              /\ log[1].stage = "syntax"
              /\ Len(log) = 1
              /\ ~last_validation.is_valid
              /\ last_validation.sql = last_validation.arg
              /\ last_validation.error = log[1].error
              /\ last_validation.error # None
        /\ \A i, j \in 1..Len(log) :
              (log[i].stage = "semantic" /\ ~log[i].ok
                  /\ log[j].stage = "dry_run")
              => log[j].sql # log[i].sql

\* The parser rejected the input SQL.
C12_Witness ==
    /\ Len(last_validation.stages) = 1
    /\ last_validation.stages[1].stage = "syntax"
    /\ ~last_validation.stages[1].ok
    /\ last_validation.arg \in Candidates

\* C13: execute_query is called at most once, right after a
\* validate_and_fix call that returned valid, with the SQL that call
\* returned, which is also the SQL stored in the result.
C13_ExecuteOnceTheValidatedSQL ==
    /\ NumCalls("execute") <= 1
    /\ executed # None =>
          /\ Len(calls) >= 2
          /\ \E i \in 2..Len(calls) :
                calls[i] = "execute" /\ calls[i - 1] = "validate"
          /\ last_validation.is_valid
          /\ executed = Some(last_validation.sql)
          /\ result.sql = executed

\* The executed SQL is the one rewritten by the fix, not the candidate.
C13_Witness ==
    /\ executed # None
    /\ executed # Some(last_validation.arg)
    /\ NumCalls("execute") = 1

\* execute_query was called and produced no rows: it returned a failure or
\* the connection raised.
ExecutionFailed == executed # None /\ result.execution_results = None

\* C14: after a failed execution of a validated SQL the invocation
\* returns: the execution is the last collaborator call, is_valid stays
\* true, correction_attempts is the number of the attempt that validated,
\* and the execution error is in the result.
C14_ExecutionFailureEndsTheCall ==
    ExecutionFailed =>
        /\ pc = "done"
        /\ calls[Len(calls)] = "execute"
        /\ result.is_valid
        /\ result.correction_attempts = NumCalls("validate") - 1
        /\ \/ result.execution_error =
                 Some(<<"Execution", "failed:">> \o ExcText("database"))
           \/ result.error = Some(ExcText("connect"))

\* The SQL of a correction attempt validated and its execution failed.
C14_Witness ==
    /\ ExecutionFailed
    /\ result.execution_error # None
    /\ result.correction_attempts >= 1

\* The last collaborator call was a generation and it raised.
GenerationRaised ==
    /\ exit = "exception"
    /\ calls # <<>>
    /\ calls[Len(calls)] = "generate"

\* C15: when generate_sql or correct_sql raises, the invocation returns
\* without another collaborator call, with is_valid false and the text of
\* the generation error in the error field.
C15_GenerationErrorSurfaced ==
    GenerationRaised =>
        /\ pc = "done"
        /\ ~result.is_valid
        /\ result.error = Some(ExcText("llm"))
        /\ executed = None

\* correct_sql raised in a correction attempt.
C15_Witness ==
    /\ GenerationRaised
    /\ NumCalls("generate") >= 2
    /\ pc = "done"

\* C16: a returned result with is_valid false has an error; a returned
\* result whose execution failed holds the text of the execution error.
C16_EveryFailureHasAMessage ==
    pc = "done" =>
        /\ ~result.is_valid => result.error # None
        /\ ExecutionFailed =>
              \/ /\ result.execution_error # None
                 /\ Contains(result.execution_error[1], ExcText("database"))
              \/ /\ result.error # None
                 /\ Contains(result.error[1], ExcText("connect"))

\* No budget: the initial candidate failed and the call returned.
C16_Witness ==
    /\ pc = "done"
    /\ exit = "exhausted"
    /\ max_correction_attempts = 0
    /\ ~result.is_valid
    /\ result.error # None

\* C17: every invocation returns; no step is run again in place: there
\* are at most max_attempts correction iterations, each with one generation
\* and one validation, after the initial pair, and one execution at most.
C17_Terminates ==
    /\ [](/\ pc \in ProgramPoints
          /\ NumCalls("generate") - 1 <= max_correction_attempts
          /\ Len(calls) <= 3 + 2 * max_correction_attempts
          /\ attempt <= max_correction_attempts + 1
          /\ pc = "validate" =>
                validation_results(sql, context, engine, dialect) # {}
          /\ pc = "validate_corrected" =>
                validation_results(corrected_sql, context, engine, dialect)
                    # {})
    /\ <>[](pc = "done")

\* The whole budget was spent on failing candidates, and the call returned.
C17_Witness ==
    /\ pc = "done"
    /\ exit = "exhausted"
    /\ max_correction_attempts >= 1
    /\ Len(calls) = 2 + 2 * max_correction_attempts

\* The names of the tables of a context.
available_tables(schema_context) ==
    { schema_context.tables[i].name : i \in 1..Len(schema_context.tables) }

\* C18: when the tables of the SQL are all in the context, its qualified
\* columns are columns of their tables, its unqualified columns are in the
\* union of the columns of the tables it refers to, and the traversal of
\* the parsed SQL does not raise, the semantic stage passes.
C18_Claim ==
    LET log == last_validation.stages
        a == last_validation.arg
        cols == columns_in_query(a)
    IN  \A i \in 1..Len(log) :
          ( /\ log[i].stage = "semantic"
            /\ log[i].sql = a
            /\ a.tables \subseteq available_tables(context)
            /\ \A c \in cols :
                  IF c.table = None
                  THEN \E t \in a.tables :
                          c.name \in table_info(context, t).metadata.columns
                  ELSE /\ c.table[1] \in a.tables
                       /\ c.name \in table_info(context, c.table[1])
                                        .metadata.columns
            /\ ~( /\ log[i].error # None
                  /\ Contains(log[i].error[1],
                              <<"Error", "during", "semantic">>) ) )
          => log[i].ok

\* The results kept from the searches, in the order of the searches.
kept_results ==
    Flatten([ i \in 1..Len(searches) |->
                filtered_results(searches[i], score_threshold) ])

\* The position at which the identifier id is first seen in results.
first_seen(results, id) ==
    CHOOSE k \in 1..Len(results) :
        /\ results[k].id = id
        /\ \A j \in 1..(k - 1) : results[j].id # id

\* C19: the tables of the returned context are built, one for one, from
\* results with distinct document identifiers: for every identifier kept
\* from the searches, the result in which it is first seen, in the order
\* of these first results over the results of the original query followed
\* by those of the enhanced query.
C19_TablesDistinctFirstSeen ==
    pc = "returned" =>
        LET u == unique_results
            t == context.tables
        IN  /\ Len(t) = Len(u)
            /\ \A i \in 1..Len(u) : t[i] = table_entry(u[i])
            /\ \A i, j \in 1..Len(u) : u[i].id = u[j].id => i = j
            /\ { u[i].id : i \in 1..Len(u) }
                  = { kept_results[k].id : k \in 1..Len(kept_results) }
            /\ \A i \in 1..Len(u) :
                  u[i] = kept_results[first_seen(kept_results, u[i].id)]
            /\ \A i, j \in 1..Len(u) :
                  i < j => first_seen(kept_results, u[i].id)
                              < first_seen(kept_results, u[j].id)

\* A hybrid retrieval in which the enhanced query finds again a document
\* of the original query, at another distance, and a new one.
C19_Witness ==
    /\ pc = "returned"
    /\ use_hybrid_search
    /\ Len(kept_results) > Len(unique_results)
    /\ Len(unique_results) = 2
    /\ \E k \in 1..Len(kept_results) :
          /\ kept_results[k].id = unique_results[1].id
          /\ kept_results[k].distance # unique_results[1].distance

\* C20: both tables of every relationship of the returned context are
\* names of tables of the context, and a foreign key of a table of the
\* context gives a relationship only if the table it refers to is one.
C20_RelationshipsInsideContext ==
    pc = "returned" =>
        LET t == context.tables
            names == { t[i].name : i \in 1..Len(t) }
            rel == context.relationships
        IN  /\ \A k \in 1..Len(rel) :
                  /\ rel[k].from_table \in names
                  /\ rel[k].to_table \in names
                  /\ \E i \in 1..Len(t) :
                        \E f \in 1..Len(t[i].metadata.foreign_keys) :
                            LET fk == t[i].metadata.foreign_keys[f]
                            IN  /\ rel[k].from_table = t[i].name
                                /\ rel[k].from_column = fk.column
                                /\ rel[k].to_table = fk.references.table
                                /\ rel[k].to_column = fk.references.column
            /\ \A i \in 1..Len(t) :
                  \A f \in 1..Len(t[i].metadata.foreign_keys) :
                      t[i].metadata.foreign_keys[f].references.table
                            \notin names
                      => \A k \in 1..Len(rel) :
                            rel[k].to_table #
                                t[i].metadata.foreign_keys[f].references.table

\* orders and customers are retained: the reference to customers is a
\* relationship, the reference to products is dropped.
C20_Witness ==
    /\ pc = "returned"
    /\ Len(context.relationships) = 1
    /\ context.relationships[1].to_table = customers
    /\ \E i \in 1..Len(context.tables) :
          /\ context.tables[i].name = orders
          /\ Len(context.tables[i].metadata.foreign_keys) = 2

\* C21: the names of the tables of a returned context are pairwise
\* distinct.
C21_Claim ==
    pc = "returned" =>
        \A i, j \in 1..Len(context.tables) :
            context.tables[i].name = context.tables[j].name => i = j

\* The results of the searches made so far, unfiltered.
raw_results == Flatten(searches)

\* The number of positions of results that hold r.
occurrences(results, r) ==
    Cardinality({ k \in 1..Len(results) : results[k] = r })

\* C22: a result of a search is kept in all_results, as many times as it
\* was returned, when its distance is at most 1 - score_threshold, the
\* boundary included, and it is dropped when its distance is larger.
C22_KeptIffWithinThreshold ==
    \A i \in 1..Len(raw_results) :
        LET r == raw_results[i]
        IN  /\ r.distance <= 10 - score_threshold =>
                  occurrences(all_results, r) = occurrences(raw_results, r)
            /\ r.distance > 10 - score_threshold =>
                  occurrences(all_results, r) = 0

\* With score_threshold 0.5 a search returned a result at distance 0.5,
\* which is kept, and one at 0.7, which is dropped.
C22_Witness ==
    /\ score_threshold = 5
    /\ \E i, j \in 1..Len(raw_results) :
          /\ raw_results[i].distance = 5
          /\ raw_results[j].distance = 7
          /\ occurrences(all_results, raw_results[i]) = 1
          /\ occurrences(all_results, raw_results[j]) = 0

\* C26: the sql field is null until the first generation returns, which
\* stores its candidate; after that a step that leaves is_valid false
\* leaves the sql field as it is.  A result returned with is_valid false
\* holds null or the first candidate.
C26_SqlOfFailureIsFirstCandidate ==
    /\ [](calls = <<>> => result.sql = None)
    /\ [][ /\ pc' = "validate" =>
                /\ pc = "generate"
                /\ calls = <<>>
                /\ result'.sql = Some(sql')
           /\ (pc' # "validate" /\ ~result'.is_valid) =>
                result'.sql = result.sql ]_vars

\* The budget is spent and the last failing SQL is a corrected candidate
\* that differs from the SQL of the result.
C26_Witness ==
    /\ pc = "done"
    /\ exit = "exhausted"
    /\ ~result.is_valid
    /\ result.sql # None
    /\ result.sql # Some(sql)
    /\ sql = corrected_sql

\* C27: when the semantic stage fails on the input SQL with a message
\* that validate_semantics builds itself ("Invalid table(s): ..." or
\* "Invalid column(s) in table ..."), the basic fixes leave the SQL as it
\* is and nothing is validated again; and the SQL validate_and_fix returns
\* is always its input.
C27_Claim ==
    LET log == last_validation.stages
    IN  /\ ( /\ Len(log) >= 2
             /\ log[2].stage = "semantic"
             /\ ~log[2].ok
             /\ log[2].error[1][1] = "Invalid" )
           => /\ Len(log) = 3
              /\ log[3].stage = "autofix"
              /\ log[3].sql = last_validation.arg
        /\ log # <<>> => last_validation.sql = last_validation.arg

\* C28: on postgresql a dry run of a SQL that the backend accepts
\* succeeds, whatever dry runs were made before.
C28_Claim ==
    ( /\ dry_runs >= 1
      /\ dialect = "postgresql"
      /\ last_dry.accepted
      /\ ~last_dry.raised )
    => last_dry.ret[1]

\* ------------------------------------------------------------------------
\* Properties of parse_query
\* ------------------------------------------------------------------------

\* The intent groups that have a keyword in the lowered text of the query.
matching_groups == { g \in 1..6 : \E w \in intent_words[g].words : Contains(lower(user_query), w) }

\* C24: the intent is the first group, in the fixed order aggregation,
\* extreme, average, ranking, trend, proportion, that has a keyword in
\* the query, whatever later groups match as well; it is simple exactly
\* when no group has one.
C24_FirstMatchingGroupWins ==
    parsed # <<>> =>
        /\ [ g \in 1..6 |-> intent_words[g].intent ]
             = << "aggregation", "extreme", "average", "ranking", "trend",
                  "proportion" >>
        /\ (matching_groups = {}) <=> (parsed[1].intent = "simple")
        /\ \A g \in matching_groups :
               (\A h \in matching_groups : g <= h)
                   => parsed[1].intent = intent_words[g].intent

\* A query with an extreme keyword ahead of an aggregation keyword in its
\* text, and a ranking keyword in capitals, was classified aggregation.
C24_Witness ==
    /\ parsed # <<>>
    /\ user_query = << "zui", "gao", "T", "O", "P", "tong", "ji" >>
    /\ matching_groups = {1, 2, 4}
    /\ parsed[1].intent = "aggregation"

\* C25: when the query has "mei ge" X "de" and more text, X being a name
\* without "de", the bare X is one of the dimensions.
C25_Claim ==
    parsed # <<>> =>
        \A i \in 1..Len(user_query), j \in 1..Len(user_query) :
            ( /\ i + 2 < j
              /\ j < Len(user_query)
              /\ SubSeq(user_query, i, i + 1) = << "mei", "ge" >>
              /\ user_query[j] = "de"
              /\ \A k \in (i + 2)..(j - 1) :
                     IsWord(user_query[k]) /\ user_query[k] # "de" )
            => SubSeq(user_query, i + 2, j - 1) \in parsed[1].dimensions

\* ------------------------------------------------------------------------
\* Properties of the knowledge store
\* ------------------------------------------------------------------------

\* A build has cleared the store and has not yet added its documents.
Rebuilding == kop.name = "build" /\ kop.cleared /\ kpc \in {"create", "add"}

\* C23: a rebuild is not atomic for the retriever. Nothing holds a search
\* back while a build or an import is under way, and a search made after
\* the build has cleared the store and before it has added its documents
\* raises or sees the empty store, which is neither the documents from
\* before the build nor the documents of the build.
C23_RebuildIsNotAtomicForARetrieval ==
    /\ [](kpc # "idle" => ENABLED Serve)
    /\ [][ (Serve /\ Rebuilding)
              => /\ observation'[1].seen \in { <<>>, << {} >> }
                 /\ observation'[1].seen \notin { << kop.pre >>, << kop.docs >> } ]_vars

\* A retriever that started during a build saw the empty store between
\* the clear and the add of that build.
C23_Witness ==
    /\ Rebuilding
    /\ observation # <<>>
    /\ observation[1].op = ops
    /\ observation[1].at = "add"
    /\ observation[1].seen = << {} >>
    /\ kop.pre # {}
    /\ kop.docs # {}

\* C29: a build or an import that has cleared the store ends in one of two
\* ways: its documents are in the store and nothing is raised, or
\* add_documents has failed, the failure is raised to the caller and the
\* store is empty, whatever it held before. It stays so while nothing else
\* is started.
C29_FailedAddLeavesTheStoreEmpty ==
    /\ [][ (kpc = "add" /\ kpc' = "idle" /\ kop.cleared)
              => \/ kerror' = <<>> /\ collection' = kop.docs
                 \/ kerror' = << "add_documents" >> /\ collection' = {} ]_vars
    /\ []( (kpc = "idle" /\ kop.cleared /\ kerror # <<>>)
              => kerror = << "add_documents" >> /\ collection = {} )

\* A build cleared a store that had documents, and its add failed.
C29_Witness ==
    /\ kpc = "idle"
    /\ kop.name = "build"
    /\ kop.cleared
    /\ kop.pre # {}
    /\ kop.docs # {}
    /\ kerror = << "add_documents" >>
    /\ collection = {}

====
